---- MODULE Spec2Model ----
(***************************************************************************)
(* The Q&A transcript cleaners of notes/devopsnotes: process_db_qa,        *)
(* process_db_qa_improved, clean_db_final, simple_clean and                *)
(* reorder_questions.  Text is modelled as TLA+ strings, character by      *)
(* character; every regular expression of the scripts is written as a      *)
(* sequence of pattern elements and run by one backtracking matcher.       *)
(***************************************************************************)
EXTENDS Integers, Sequences, FiniteSets, TLC

(***************************************************************************)
(* Bounds of the model: the number of text chunks an input file is built   *)
(* from.                                                                   *)
(***************************************************************************)
MaxChunks == 3
MaxPairs == 4

(***************************************************************************)
(* Characters and Python's str primitives.                                 *)
(***************************************************************************)
Char(s, k) == SubSeq(s, k, k)

Whitespace == {" ", "\t", "\n", "\r", "\f"}

Digits == {"0", "1", "2", "3", "4", "5", "6", "7", "8", "9"}

UpperLetters ==
    {"A", "B", "C", "D", "E", "F", "G", "H", "I", "J", "K", "L", "M",
     "N", "O", "P", "Q", "R", "S", "T", "U", "V", "W", "X", "Y", "Z"}

LowerLetters ==
    {"a", "b", "c", "d", "e", "f", "g", "h", "i", "j", "k", "l", "m",
     "n", "o", "p", "q", "r", "s", "t", "u", "v", "w", "x", "y", "z"}

LowerOf ==
    "A" :> "a" @@ "B" :> "b" @@ "C" :> "c" @@ "D" :> "d" @@ "E" :> "e" @@
    "F" :> "f" @@ "G" :> "g" @@ "H" :> "h" @@ "I" :> "i" @@ "J" :> "j" @@
    "K" :> "k" @@ "L" :> "l" @@ "M" :> "m" @@ "N" :> "n" @@ "O" :> "o" @@
    "P" :> "p" @@ "Q" :> "q" @@ "R" :> "r" @@ "S" :> "s" @@ "T" :> "t" @@
    "U" :> "u" @@ "V" :> "v" @@ "W" :> "w" @@ "X" :> "x" @@ "Y" :> "y" @@
    "Z" :> "z"

\* One character folded for re.IGNORECASE.
Fold(c) == IF c \in UpperLetters THEN LowerOf[c] ELSE c

\* The value F(p) at the least p in from..to where it is not 0, and 0 when
\* there is none.  The range is searched by halves, so that F is evaluated
\* once at each position up to that one and at no position after it.
FirstNonZero(from, to, F(_)) ==
    LET Search[a \in Nat, b \in Nat] ==
            IF a > b THEN 0
            ELSE IF a = b THEN F(a)
            ELSE LET mid == (a + b) \div 2
                     low == Search[a, mid]
                 IN  IF low # 0 THEN low ELSE Search[mid + 1, b]
    IN  Search[from, to]

\* The same at the greatest p.
LastNonZero(from, to, F(_)) ==
    LET Search[a \in Nat, b \in Nat] ==
            IF a > b THEN 0
            ELSE IF a = b THEN F(a)
            ELSE LET mid == (a + b) \div 2
                     high == Search[mid + 1, b]
                 IN  IF high # 0 THEN high ELSE Search[a, mid]
    IN  Search[from, to]

\* The least p in from..to with Test(p), 0 when there is none (from >= 1).
First(from, to, Test(_)) ==
    LET At(p) == IF Test(p) THEN p ELSE 0
    IN  FirstNonZero(from, to, At)

\* The greatest p in from..to with Test(p), 0 when there is none.
Last(from, to, Test(_)) ==
    LET At(p) == IF Test(p) THEN p ELSE 0
    IN  LastNonZero(from, to, At)

\* A text with every letter folded to lower case.
RECURSIVE FoldStr(_)
FoldStr(s) ==
    IF Len(s) = 0 THEN ""
    ELSE IF Len(s) = 1 THEN Fold(s)
    ELSE LET half == Len(s) \div 2
         IN  FoldStr(SubSeq(s, 1, half)) \o FoldStr(SubSeq(s, half + 1, Len(s)))

\* str.strip()
strip(s) ==
    LET Solid(p) == Char(s, p) \notin Whitespace
        first == First(1, Len(s), Solid)
    IN  IF first = 0 THEN "" ELSE SubSeq(s, first, Last(1, Len(s), Solid))

\* str.startswith(prefix)
startswith(s, prefix) ==
    Len(prefix) <= Len(s) /\ SubSeq(s, 1, Len(prefix)) = prefix

\* s[k:] of Python, k counted from 0
SliceFrom(s, k) == SubSeq(s, k + 1, Len(s))

\* The position of the first sep at or after from (1-based), 0 when none.
IndexOf(s, sep, from) ==
    LET Here(p) == Char(s, p) = sep
    IN  First(from, Len(s), Here)

\* str.split('\n')
RECURSIVE split(_)
split(s) ==
    LET k == IndexOf(s, "\n", 1)
    IN  IF k = 0 THEN <<s>>
        ELSE <<SubSeq(s, 1, k - 1)>> \o split(SubSeq(s, k + 1, Len(s)))

\* sep.join(seq)
RECURSIVE join(_, _)
join(sep, seq) ==
    IF seq = <<>> THEN ""
    ELSE IF Len(seq) = 1 THEN seq[1]
    ELSE seq[1] \o sep \o join(sep, Tail(seq))

DigitOf ==
    0 :> "0" @@ 1 :> "1" @@ 2 :> "2" @@ 3 :> "3" @@ 4 :> "4" @@
    5 :> "5" @@ 6 :> "6" @@ 7 :> "7" @@ 8 :> "8" @@ 9 :> "9"

\* str(n) of a natural number, as an f-string formats it
RECURSIVE str(_)
str(n) == IF n < 10 THEN DigitOf[n] ELSE str(n \div 10) \o DigitOf[n % 10]

DigitValue(c) == CHOOSE d \in 0..9 : DigitOf[d] = c

\* int(s) of a string of decimal digits
RECURSIVE int(_)
int(s) ==
    IF Len(s) = 1 THEN DigitValue(s)
    ELSE 10 * int(SubSeq(s, 1, Len(s) - 1)) + DigitValue(Char(s, Len(s)))

(***************************************************************************)
(* Regular expressions.  A pattern is a sequence of elements; a class is   *)
(* named by a string.                                                      *)
(***************************************************************************)
InClass(c, cls) ==
    CASE cls = "any"    -> TRUE                       \* . under re.DOTALL
      [] cls = "notnl"  -> c # "\n"                   \* . and [^\n]
      [] cls = "ws"     -> c \in Whitespace           \* \s
      [] cls = "digit"  -> c \in Digits               \* \d
      [] cls = "notdot" -> c # "."                    \* [^.]
      [] cls = "space"  -> c = " "
      [] cls = "dot"    -> c = "."
      [] cls = "upper"  -> c \in UpperLetters         \* [A-Z]
      [] cls = "topic"  ->                            \* [a-zA-Z\s&]
            c \in UpperLetters \cup LowerLetters \cup Whitespace \cup {"&"}
      [] cls = "topic/" ->                            \* [a-zA-Z\s&/]
            c \in UpperLetters \cup LowerLetters \cup Whitespace \cup {"&", "/"}

Lit(s) == [k |-> "lit", s |-> s, alts |-> <<>>]          \* literal text
Star(cls) == [k |-> "star", s |-> cls, alts |-> <<>>]    \* cls*  (greedy)
Plus(cls) == [k |-> "plus", s |-> cls, alts |-> <<>>]    \* cls+  (greedy)
Lazy(cls) == [k |-> "lazy", s |-> cls, alts |-> <<>>]    \* cls*? (lazy)
One(cls) == [k |-> "one", s |-> cls, alts |-> <<>>]      \* cls
AtEnd == [k |-> "end", s |-> "", alts |-> <<>>]          \* $ and \Z
LineStart == [k |-> "bol", s |-> "", alts |-> <<>>]      \* ^ under re.MULTILINE
Ahead(alts) == [k |-> "ahead", s |-> "", alts |-> alts]  \* (?=a|b)

\* A pattern compiled with re.IGNORECASE: its literals are folded, and it is
\* matched against the folded text.  No pattern the scripts compile with
\* this flag has a class of letters.
IgnoreCase(pat) ==
    [j \in 1..Len(pat) |->
        IF pat[j].k = "lit" THEN Lit(FoldStr(pat[j].s)) ELSE pat[j]]

IgnoreCaseAll(patterns) ==
    [n \in 1..Len(patterns) |-> IgnoreCase(patterns[n])]

\* How many characters of class cls stand at pos and after it.
RunLength(text, pos, cls) ==
    LET Stop(p) == p > Len(text) \/ ~InClass(Char(text, p), cls)
    IN  IF cls = "any" THEN Len(text) + 1 - pos
        ELSE First(pos, Len(text) + 1, Stop) - pos

LitAt(text, pos, lit) ==
    LET last == pos + Len(lit) - 1
    IN  last <= Len(text) /\ SubSeq(text, pos, last) = lit

(***************************************************************************)
(* MatchFrom(pat, j, text, pos): elements j.. of pat matched at pos, with  *)
(* the priorities of a backtracking engine (greedy: the longest repetition *)
(* that lets the rest match; lazy: the shortest).  The result is the       *)
(* position after the match, 0 when there is none.                         *)
(***************************************************************************)
RECURSIVE MatchFrom(_, _, _, _)

MatchFrom(pat, j, text, pos) ==
    IF j > Len(pat) THEN pos
    ELSE LET e == pat[j]
             run == RunLength(text, pos, e.s)
             Continue(at) == MatchFrom(pat, j + 1, text, at)
             Alt(n) == MatchFrom(e.alts[n], 1, text, pos) # 0
         IN  CASE e.k = "lit" ->
                    IF LitAt(text, pos, e.s) THEN Continue(pos + Len(e.s)) ELSE 0
               [] e.k = "one" ->
                    IF pos <= Len(text) /\ InClass(Char(text, pos), e.s)
                    THEN Continue(pos + 1)
                    ELSE 0
               [] e.k = "star" -> LastNonZero(pos, pos + run, Continue)
               [] e.k = "plus" -> LastNonZero(pos + 1, pos + run, Continue)
               [] e.k = "lazy" -> FirstNonZero(pos, pos + run, Continue)
               [] e.k = "end" ->
                    IF pos = Len(text) + 1 THEN Continue(pos) ELSE 0
               [] e.k = "bol" ->
                    IF pos = 1 \/ Char(text, pos - 1) = "\n" THEN Continue(pos) ELSE 0
               [] e.k = "ahead" ->
                    IF \E n \in 1..Len(e.alts) : Alt(n) THEN Continue(pos) ELSE 0

\* The text a pattern is matched against: folded under re.IGNORECASE.
Subject(text, ic) == IF ic THEN FoldStr(text) ELSE text

\* re.match(pat, text): a match at the start of text
match(pat, text, ic) == MatchFrom(pat, 1, Subject(text, ic), 1) # 0

\* The start of the leftmost match at or after pos (re.search), 0 when none.
\* (a pattern that begins with a literal is tried only where the literal's
\* first character stands)
SearchFrom(pat, subject, pos) ==
    LET lead == IF pat[1].k = "lit" THEN Head(pat[1].s) ELSE ""
        Hit(p) == /\ lead = "" \/ (p <= Len(subject) /\ Char(subject, p) = lead)
                  /\ MatchFrom(pat, 1, subject, p) # 0
    IN  First(pos, Len(subject) + 1, Hit)

\* re.sub(pat, repl, text): every non-overlapping match, leftmost first,
\* replaced by repl.  Every substituted pattern of the scripts matches at
\* least one character.
RECURSIVE SubFrom(_, _, _, _, _)
SubFrom(pat, repl, text, subject, pos) ==
    LET start == SearchFrom(pat, subject, pos)
    IN  IF start = 0 THEN SubSeq(text, pos, Len(text))
        ELSE SubSeq(text, pos, start - 1) \o repl
             \o SubFrom(pat, repl, text, subject, MatchFrom(pat, 1, subject, start))

sub(pat, repl, text, ic) == SubFrom(pat, repl, text, Subject(text, ic), 1)

\* for pattern in patterns: text = re.sub(pattern, '', text, flags)
\* (every pattern of the scripts leaves an empty text empty)
RECURSIVE SubAll(_, _, _)
SubAll(patterns, text, ic) ==
    IF patterns = <<>> \/ text = "" THEN text
    ELSE SubAll(Tail(patterns), sub(Head(patterns), "", text, ic), ic)

\* len(re.findall(pat, text)) for a pattern that matches no empty string
RECURSIVE CountFrom(_, _, _)
CountFrom(pat, text, pos) ==
    LET start == SearchFrom(pat, text, pos)
    IN  IF start = 0 THEN 0
        ELSE 1 + CountFrom(pat, text, MatchFrom(pat, 1, text, start))

(***************************************************************************)
(* The state of one run of one script.                                     *)
(***************************************************************************)
VARIABLES
    script,            \* the script that runs
    content,           \* the text of the input file
    pc,                \* where the run stands
    lines,             \* cleaned_content.split('\n')
    i,                 \* the index of the line being examined
    processed_lines,   \* the output lines built so far
    question_number,   \* question_number / question_counter
    found_answer,      \* clean_db_final's found_answer
    iter_start,        \* history: i when the current loop iteration began
    output,            \* the text written to the output file
    summary,           \* the counts printed after the run
    qa_pairs,          \* reorder_questions: the text of each pair
    structured_pairs   \* reorder_questions: the extracted records

vars ==
    <<script, content, pc, lines, i, processed_lines, question_number,
      found_answer, iter_start, output, summary, qa_pairs, structured_pairs>>

(***************************************************************************)
(* Patterns shared by the line cleaners.                                   *)
(***************************************************************************)
\* r'^\d+\.\s*Q:'
question_line == <<Plus("digit"), Lit("."), Star("ws"), Lit("Q:")>>

\* r'\s+'
whitespace_run == <<Plus("ws")>>

\* The three characters of the arrow notation (not ASCII in the source; the
\* model writes them as three ASCII characters that occur nowhere else).
ArrowGlyph == "^~>"

\* r'<arrow>.*?(?=\s|$)'
arrow_notation ==
    <<Lit(ArrowGlyph), Lazy("notnl"), Ahead(<<<<One("ws")>>, <<AtEnd>>>>)>>

Count(seq, Test(_)) == Len(SelectSeq(seq, Test))

IsHeadingEntry(l) == startswith(l, "## ")
IsQuestionEntry(l) == match(question_line, l, FALSE)
IsAnswerEntry(l) == startswith(l, "A:")

\* topics, questions, answers as the three line cleaners count them
CountResults(entries) ==
    [topics    |-> Count(entries, IsHeadingEntry),
     questions |-> Count(entries, IsQuestionEntry),
     answers   |-> Count(entries, IsAnswerEntry)]

NoSummary == [topics |-> 0, questions |-> 0, answers |-> 0]

\* f"{question_number}. Q: {question_text}"
QuestionEntry(n, line) == str(n) \o ". Q: " \o strip(SliceFrom(line, 2))

\* A step back of two lines instead of one: the fault that would let the
\* outer loop stand still.
StepBackTwice(n) == n - 2

\* i -= 1
StepBack(n) == n - 1

CurLine == strip(lines[i + 1])

(***************************************************************************)
(* process_db_qa                                                           *)
(***************************************************************************)
fluff_patterns ==
    IgnoreCaseAll(
    << <<Lit("If you want, I can expand this"), Lazy("any"),
         Lit("Do you want me to do that next?")>>,
       <<Lit("You said:"), Star("ws"), Lit("Proceed"), Star("ws"),
         Lit("ChatGPT said:"), Star("ws"), Lit("Perfect.")>>,
       <<Lit("Perfect. Here's a comprehensive"), Lazy("any")>>,
       <<Lit("Do you want me to"), Lazy("any")>>,
       <<Lit("I can expand"), Lazy("any")>>,
       <<Lit("continuing from what we've covered"), Lazy("any")>>,
       <<Lit("covering"), Lazy("any"), Lit("cloud operations specifically.")>>,
       <<Lit("Comprehensive Practical DevOps DB Q&A")>>,
       <<Lit("Here's a comprehensive"), Lazy("any"), Lit("migrations.")>> >>)

\* r'^(\d+)\.\s+(.+)$'
topic_match == <<Plus("digit"), Lit("."), Plus("ws"), Plus("notnl"), AtEnd>>

TopicMinLen == 30

IsTopic(line) ==
    /\ Len(line) > TopicMinLen
    /\ ~startswith(line, "Q:")
    /\ match(topic_match, line, FALSE)

skip_patterns ==
    IgnoreCaseAll(
    << <<Lit("Perfect.")>>,
       <<Lit("You said:")>>,
       <<Lit("ChatGPT said:")>>,
       <<Lit("If you want")>>,
       <<Lit("Do you want")>>,
       <<Lit("Here's a")>>,
       <<Plus("digit"), Lit("+"), Star("notnl"), Lit("practical")>>,
       <<Lit("covering"), Star("notnl"), Lit("specifically")>> >>)

\* any(re.match(pattern, line, re.IGNORECASE) for pattern in patterns)
AnyMatch(patterns, line) ==
    LET subject == Subject(line, TRUE)
    IN  \E n \in 1..Len(patterns) : MatchFrom(patterns[n], 1, subject, 1) # 0

should_skip(line) == AnyMatch(skip_patterns, line)

OtherMinLen == 3

\* The answer text of an 'A:' line as process_db_qa cleans it.
CleanAnswer(line) ==
    strip(sub(whitespace_run, " ",
              sub(arrow_notation, "", strip(SliceFrom(line, 2)), FALSE),
              FALSE))

\* if answer_text: append the answer and a blank line
WithAnswer(entries, answer_text) ==
    IF answer_text # ""
    THEN entries \o <<"A: " \o answer_text, "">>
    ELSE entries

PQ_Read ==
    /\ script = "process_db_qa" /\ pc = "start"
    /\ lines' = split(SubAll(fluff_patterns, content, TRUE))
    /\ pc' = "loop"
    /\ UNCHANGED <<script, content, i, processed_lines, question_number,
                   found_answer, iter_start, output, summary, qa_pairs,
                   structured_pairs>>

PQ_Step(entries, number) ==
    /\ processed_lines' = entries
    /\ question_number' = number
    /\ iter_start' = i
    /\ i' = i + 1
    /\ UNCHANGED <<script, content, pc, lines, found_answer, output, summary,
                   qa_pairs, structured_pairs>>

PQ_Here == script = "process_db_qa" /\ pc = "loop" /\ i < Len(lines)

PQ_IsLeadingBlank == CurLine = "" /\ processed_lines = <<>>

PQ_SkipLeadingBlank ==
    /\ PQ_Here
    /\ PQ_IsLeadingBlank
    /\ PQ_Step(processed_lines, question_number)

PQ_Topic ==
    /\ PQ_Here
    /\ ~PQ_IsLeadingBlank
    /\ IsTopic(CurLine)
    /\ PQ_Step(Append(processed_lines, "\n## " \o CurLine \o "\n"), 1)

PQ_Question ==
    /\ PQ_Here
    /\ startswith(CurLine, "Q:")
    /\ ~PQ_IsLeadingBlank
    /\ ~IsTopic(CurLine)
    /\ PQ_Step(Append(processed_lines, QuestionEntry(question_number, CurLine)),
               question_number + 1)

PQ_Answer ==
    /\ PQ_Here
    /\ startswith(CurLine, "A:")
    /\ ~PQ_IsLeadingBlank
    /\ ~IsTopic(CurLine)
    /\ ~startswith(CurLine, "Q:")
    /\ PQ_Step(WithAnswer(processed_lines, CleanAnswer(CurLine)), question_number)

PQ_IsOther ==
    /\ ~startswith(CurLine, "Q:")
    /\ ~startswith(CurLine, "A:")
    /\ ~PQ_IsLeadingBlank
    /\ ~IsTopic(CurLine)

PQ_SkipFluff ==
    /\ PQ_Here
    /\ PQ_IsOther
    /\ should_skip(CurLine)
    /\ PQ_Step(processed_lines, question_number)

PQ_Other ==
    /\ PQ_Here
    /\ PQ_IsOther
    /\ ~should_skip(CurLine)
    /\ PQ_Step(IF CurLine # "" /\ Len(CurLine) > OtherMinLen
               THEN Append(processed_lines, CurLine)
               ELSE processed_lines,
               question_number)

\* The file written and the counts printed, by the three line cleaners.
WriteResults ==
    /\ output' = join("\n", processed_lines)
    /\ summary' = CountResults(processed_lines)
    /\ pc' = "done"
    /\ UNCHANGED <<script, content, lines, i, processed_lines, question_number,
                   found_answer, iter_start, qa_pairs, structured_pairs>>

PQ_Write ==
    /\ script = "process_db_qa" /\ pc = "loop" /\ i = Len(lines)
    /\ WriteResults

process_db_qa ==
    \/ PQ_Read
    \/ PQ_SkipLeadingBlank
    \/ PQ_Topic
    \/ PQ_Question
    \/ PQ_Answer
    \/ PQ_SkipFluff
    \/ PQ_Other
    \/ PQ_Write

(***************************************************************************)
(* process_db_qa_improved                                                  *)
(***************************************************************************)
fluff_patterns_improved ==
    IgnoreCaseAll(
    << <<Lit("If you want, I can expand this"), Lazy("any"),
         Lit("Do you want me to do that next?")>>,
       <<Lit("You said:"), Star("ws"), Lit("Proceed"), Star("ws"),
         Lit("ChatGPT said:"), Star("ws"), Lit("Perfect.")>>,
       <<Lit("Perfect. Here's a comprehensive"), Lazy("any"), Lit("migrations.")>>,
       <<Lit("Do you want me to"), Lazy("any")>>,
       <<Lit("I can expand"), Lazy("any"), Lit("specifically.")>>,
       <<Lit("continuing from what we've covered"), Lazy("any")>>,
       <<Lit("covering"), Lazy("any"), Lit("cloud operations specifically.")>>,
       <<Lit("Comprehensive Practical DevOps DB Q&A")>>,
       <<Lit("Here's a comprehensive"), Lazy("any")>> >>)

\* r'^(\d+)\.\s+[A-Z][a-zA-Z\s&]+$'
topic_match_improved ==
    <<Plus("digit"), Lit("."), Plus("ws"), One("upper"), Plus("topic"), AtEnd>>

TopicMinLenImproved == 20

IsTopicImproved(line) ==
    /\ Len(line) > TopicMinLenImproved
    /\ match(topic_match_improved, line, FALSE)
    /\ ~startswith(line, "Q:")
    /\ IndexOf(line, "?", 1) = 0

skip_patterns_improved ==
    skip_patterns
        \o IgnoreCaseAll(<< <<Lit("I can expand")>>, <<Lit("continuing from")>> >>)

should_skip_improved(line) == AnyMatch(skip_patterns_improved, line)

\* The answer text of an 'A:' line as the two look-ahead cleaners clean it.
NormalizeAnswer(line) == sub(whitespace_run, " ", strip(SliceFrom(line, 2)), FALSE)

PI_Read ==
    /\ script = "process_db_qa_improved" /\ pc = "start"
    /\ lines' = split(SubAll(fluff_patterns_improved, content, TRUE))
    /\ pc' = "loop"
    /\ UNCHANGED <<script, content, i, processed_lines, question_number,
                   found_answer, iter_start, output, summary, qa_pairs,
                   structured_pairs>>

\* One whole iteration of the outer loop that ends in i += 1; continue.
LoopStep(entries, number) ==
    /\ processed_lines' = entries
    /\ question_number' = number
    /\ iter_start' = i
    /\ i' = i + 1
    /\ UNCHANGED <<script, content, pc, lines, found_answer, output, summary,
                   qa_pairs, structured_pairs>>

\* A question emitted; the look-ahead for its answer starts at the next line.
StartLookAhead ==
    /\ processed_lines' = Append(processed_lines, QuestionEntry(question_number, CurLine))
    /\ question_number' = question_number + 1
    /\ iter_start' = i
    /\ i' = i + 1
    /\ found_answer' = FALSE
    /\ pc' = "lookahead"
    /\ UNCHANGED <<script, content, lines, output, summary, qa_pairs,
                   structured_pairs>>

\* One step inside or after the look-ahead.
LookStep(index, entries, found, next) ==
    /\ i' = index
    /\ processed_lines' = entries
    /\ found_answer' = found
    /\ pc' = next
    /\ UNCHANGED <<script, content, lines, question_number, iter_start, output,
                   summary, qa_pairs, structured_pairs>>

PI_Here == script = "process_db_qa_improved" /\ pc = "loop" /\ i < Len(lines)

IsLeadingBlank == CurLine = "" /\ processed_lines = <<>>

PI_SkipLeadingBlank ==
    /\ PI_Here
    /\ IsLeadingBlank
    /\ LoopStep(processed_lines, question_number)

PI_Topic ==
    /\ PI_Here
    /\ ~IsLeadingBlank
    /\ IsTopicImproved(CurLine)
    /\ LoopStep(Append(processed_lines, "\n## " \o CurLine \o "\n"), 1)

PI_Question ==
    /\ PI_Here
    /\ startswith(CurLine, "Q:")
    /\ ~IsLeadingBlank
    /\ ~IsTopicImproved(CurLine)
    /\ StartLookAhead

PI_Looking == script = "process_db_qa_improved" /\ pc = "lookahead"

PI_LookEnd ==
    /\ PI_Looking
    /\ i >= Len(lines)
    /\ LookStep(i, processed_lines, found_answer, "advance")

PI_LookAnswer ==
    /\ PI_Looking
    /\ i < Len(lines)
    /\ startswith(CurLine, "A:")
    /\ LookStep(i, WithAnswer(processed_lines, NormalizeAnswer(CurLine)),
                found_answer, "advance")

PI_LookBlank ==
    /\ PI_Looking
    /\ i < Len(lines)
    /\ ~startswith(CurLine, "A:")
    /\ CurLine = ""
    /\ LookStep(i + 1, processed_lines, found_answer, "lookahead")

PI_LookOther ==
    /\ PI_Looking
    /\ i < Len(lines)
    /\ ~startswith(CurLine, "A:")
    /\ CurLine # ""
    /\ LookStep(StepBack(i), processed_lines, found_answer, "advance")

PI_Advance ==
    /\ script = "process_db_qa_improved" /\ pc = "advance"
    /\ LookStep(i + 1, processed_lines, found_answer, "loop")

PI_IsOther ==
    /\ ~startswith(CurLine, "Q:")
    /\ ~IsLeadingBlank
    /\ ~IsTopicImproved(CurLine)

PI_SkipFluff ==
    /\ PI_Here
    /\ PI_IsOther
    /\ should_skip_improved(CurLine)
    /\ LoopStep(processed_lines, question_number)

PI_Other ==
    /\ PI_Here
    /\ PI_IsOther
    /\ ~should_skip_improved(CurLine)
    /\ LoopStep(processed_lines, question_number)

PI_Write ==
    /\ script = "process_db_qa_improved" /\ pc = "loop" /\ i >= Len(lines)
    /\ WriteResults

process_db_qa_improved ==
    \/ PI_Read
    \/ PI_SkipLeadingBlank
    \/ PI_Topic
    \/ PI_Question
    \/ PI_LookEnd
    \/ PI_LookAnswer
    \/ PI_LookBlank
    \/ PI_LookOther
    \/ PI_Advance
    \/ PI_SkipFluff
    \/ PI_Other
    \/ PI_Write

(***************************************************************************)
(* clean_db_final                                                          *)
(***************************************************************************)
major_fluff ==
    IgnoreCaseAll(
    << <<Lit("If you want, I can expand this into a \"200+ practical DevOps DB Q&A list\""),
         Lazy("any"), Lit("Do you want me to do that next?")>>,
       <<Lit("You said:"), Star("ws"), Lit("Proceed"), Star("ws"),
         Lit("ChatGPT said:"), Star("ws"), Lit("Perfect."), Lazy("any"),
         Lit("Here's a comprehensive"), Lazy("any"), Lit("migrations.")>>,
       <<Lit("Perfect. Here's a comprehensive"), Lazy("any"), Lit("migrations.")>>,
       <<Lit("Here's a comprehensive, practical DevOps database Q&A list, continuing from what we've covered. I'll focus on RDBMS, NoSQL, cloud-managed DBs, operations, monitoring, security, scaling, and migrations.")>>,
       <<Lit("Comprehensive Practical DevOps DB Q&A")>> >>)

\* r'^(\d+)\.\s+([A-Z][a-zA-Z\s&/]+)$'
topic_match_final ==
    <<Plus("digit"), Lit("."), Plus("ws"), One("upper"), Plus("topic/"), AtEnd>>

TopicMinLenFinal == 15

IsTopicFinal(line) ==
    /\ Len(line) > TopicMinLenFinal
    /\ match(topic_match_final, line, FALSE)
    /\ ~startswith(line, "Q:")
    /\ IndexOf(line, "?", 1) = 0
    /\ ~match(question_line, line, FALSE)

CF_Read ==
    /\ script = "clean_db_final" /\ pc = "start"
    /\ lines' = split(SubAll(major_fluff, content, TRUE))
    /\ pc' = "loop"
    /\ UNCHANGED <<script, content, i, processed_lines, question_number,
                   found_answer, iter_start, output, summary, qa_pairs,
                   structured_pairs>>

CF_Here == script = "clean_db_final" /\ pc = "loop" /\ i < Len(lines)

CF_SkipLeadingBlank ==
    /\ CF_Here
    /\ IsLeadingBlank
    /\ LoopStep(processed_lines, question_number)

CF_Topic ==
    /\ CF_Here
    /\ ~IsLeadingBlank
    /\ IsTopicFinal(CurLine)
    /\ LoopStep(processed_lines \o <<"\n## " \o CurLine, "">>, 1)

CF_Question ==
    /\ CF_Here
    /\ startswith(CurLine, "Q:")
    /\ ~IsLeadingBlank
    /\ ~IsTopicFinal(CurLine)
    /\ StartLookAhead

CF_Looking == script = "clean_db_final" /\ pc = "lookahead"

CF_LookEnd ==
    /\ CF_Looking
    /\ i >= Len(lines)
    /\ LookStep(i, processed_lines, found_answer, "stepback")

CF_LookAnswer ==
    /\ CF_Looking
    /\ i < Len(lines)
    /\ startswith(CurLine, "A:")
    /\ LookStep(i, WithAnswer(processed_lines, NormalizeAnswer(CurLine)),
                TRUE, "stepback")

CF_LookSkip ==
    /\ CF_Looking
    /\ i < Len(lines)
    /\ ~startswith(CurLine, "A:")
    /\ CurLine # "" /\ ~startswith(CurLine, "Q:")
    /\ LookStep(i + 1, processed_lines, found_answer, "lookahead")

CF_LookBreak ==
    /\ CF_Looking
    /\ i < Len(lines)
    /\ ~startswith(CurLine, "A:")
    /\ ~(CurLine # "" /\ ~startswith(CurLine, "Q:"))
    /\ LookStep(i, processed_lines, found_answer, "stepback")

\* if not found_answer: i -= 1
CF_StepBack ==
    /\ script = "clean_db_final" /\ pc = "stepback"
    /\ ~found_answer
    /\ LookStep(StepBack(i), processed_lines, found_answer, "advance")

CF_NoStepBack ==
    /\ script = "clean_db_final" /\ pc = "stepback"
    /\ found_answer
    /\ LookStep(i, processed_lines, found_answer, "advance")

CF_Advance ==
    /\ script = "clean_db_final" /\ pc = "advance"
    /\ LookStep(i + 1, processed_lines, found_answer, "loop")

CF_Other ==
    /\ CF_Here
    /\ ~startswith(CurLine, "Q:")
    /\ ~IsLeadingBlank
    /\ ~IsTopicFinal(CurLine)
    /\ LoopStep(processed_lines, question_number)

CF_Write ==
    /\ script = "clean_db_final" /\ pc = "loop" /\ i >= Len(lines)
    /\ WriteResults

clean_db_final ==
    \/ CF_Read
    \/ CF_SkipLeadingBlank
    \/ CF_Topic
    \/ CF_Question
    \/ CF_LookEnd
    \/ CF_LookAnswer
    \/ CF_LookSkip
    \/ CF_LookBreak
    \/ CF_StepBack
    \/ CF_NoStepBack
    \/ CF_Advance
    \/ CF_Other
    \/ CF_Write

(***************************************************************************)
(* simple_clean                                                            *)
(***************************************************************************)
fluff_patterns_simple ==
    IgnoreCaseAll(
    << <<Lit(" I can keep going and expand this all the way to 100+ questions"),
         Star("notdot"), Lit(".")>>,
       <<Lit(" Do you want me to continue to #100?"), Star("notdot"), Lit(".")>>,
       <<Lit(" You said:"), Star("ws"), Lit("Proceed"), Star("ws"),
         Lit("ChatGPT said:"), Star("ws"), Lit("Perfect."), Star("notdot"), Lit(".")>>,
       <<Lit(" If you want, I can continue"), Star("notdot"), Lit(".")>>,
       <<Lit(" Do you want me to proceed with that?")>>,
       <<Lit(" Do you want me to continue with that?")>>,
       <<Lit(" Do you want me to make that next?")>>,
       <<Lit(" I can also create"), Star("notdot"), Lit(".")>>,
       <<Lit(" This brings us to "), Plus("digit"), Star("notdot"), Lit(".")>>,
       <<Lit(" We've now covered"), Star("notdot"), Lit(".")>>,
       <<Lit(" At this point"), Star("notdot"), Lit(".")>>,
       <<Lit(" to #100? Perfect. Let's continue expanding your practical CI/CD interview Q&A from #66 onward, keeping it highly realistic, scenario-driven, and DevOps-focused.")>>,
       <<Lit(" Perfect. Let's continue"), Star("notdot"), Lit("DevOps-focused.")>>,
       <<Lit(" continuing from #"), Plus("digit"), Lit(" onward"), Star("notdot"), Lit(".")>>,
       <<Lit(" from #"), Plus("digit"), Lit(" all the way to"), Star("notdot"), Lit(".")>>,
       <<Lit(" going into extreme"), Star("notdot"), Lit(".")>>,
       <<Lit(" covering"), Star("notdot"), Lit("interview"), Star("notdot"), Lit(".")>>,
       <<Lit(" giving you a"), Star("notdot"), Lit("Q&A"), Star("notdot"), Lit(".")>>,
       <<Lit(" create a"), Star("notdot"), Lit("master-level"), Star("notdot"), Lit(".")>>,
       <<Lit(" DevOps interview"), Star("notdot"), Lit(".")>>,
       <<Lit(" me to continue.")>>,
       <<Lit(" me to proceed.")>> >>)

\* r'  +'
double_spaces == <<Lit("  "), Star("space")>>

\* r'\.+'
extra_periods == <<Plus("dot")>>

\* r'^\d+\.\s*Q:' and r'^A:' under re.MULTILINE
question_start == <<LineStart>> \o question_line
answer_start == <<LineStart, Lit("A:")>>

SC_Run ==
    /\ script = "simple_clean" /\ pc = "start"
    /\ LET cleaned_content ==
               sub(extra_periods, ".",
                   sub(double_spaces, " ",
                       SubAll(fluff_patterns_simple, content, TRUE), FALSE),
                   FALSE)
       IN  /\ output' = cleaned_content
           /\ summary' = [questions |-> CountFrom(question_start, cleaned_content, 1),
                          answers   |-> CountFrom(answer_start, cleaned_content, 1)]
    /\ pc' = "done"
    /\ UNCHANGED <<script, content, lines, i, processed_lines, question_number,
                   found_answer, iter_start, qa_pairs, structured_pairs>>

simple_clean == SC_Run

(***************************************************************************)
(* reorder_questions                                                       *)
(***************************************************************************)
\* r'\d+\.\s*Q:'
question_marker == <<Plus("digit"), Lit("."), Star("ws"), Lit("Q:")>>

\* re.split(r'(\d+\.\s*Q:)', text): the texts between the markers and the
\* markers themselves, in turn
RECURSIVE SplitParts(_, _)
SplitParts(text, pos) ==
    LET start == SearchFrom(question_marker, text, pos)
        end == MatchFrom(question_marker, 1, text, start)
    IN  IF start = 0 THEN <<SubSeq(text, pos, Len(text))>>
        ELSE <<SubSeq(text, pos, start - 1), SubSeq(text, start, end - 1)>>
             \o SplitParts(text, end)

\* The loop over the parts: a marker closes the pair collected so far and
\* opens the next one; any other part with text in it is added to it.
RECURSIVE CollectPairs(_, _, _, _)
CollectPairs(parts, n, current_qa, pairs) ==
    LET closed == IF strip(current_qa) # ""
                  THEN Append(pairs, strip(current_qa))
                  ELSE pairs
    IN  IF n > Len(parts) THEN closed
        ELSE IF match(question_marker, parts[n], FALSE)
             THEN CollectPairs(parts, n + 1, parts[n], closed)
        ELSE IF strip(parts[n]) # ""
             THEN CollectPairs(parts, n + 1, current_qa \o parts[n], pairs)
        ELSE CollectPairs(parts, n + 1, current_qa, pairs)

\* r'(\d+)\.\s*Q:\s*([^\n]+)', and the same up to where its group 2 starts
question_head ==
    <<Plus("digit"), Lit("."), Star("ws"), Lit("Q:"), Star("ws"), Plus("notnl")>>

question_head_to_text ==
    <<Plus("digit"), Lit("."), Star("ws"), Lit("Q:"), Star("ws"),
      Ahead(<< <<One("notnl")>> >>)>>

\* r'A:\s*([^\n].*?)(?=\n\d+\.\s*Q:|\Z)' under re.DOTALL, and the same up
\* to where its group 1 starts
answer_pattern ==
    <<Lit("A:"), Star("ws"), One("notnl"), Lazy("any"),
      Ahead(<< <<Lit("\n")>> \o question_marker, <<AtEnd>> >>)>>

answer_pattern_to_text ==
    <<Lit("A:"), Star("ws"), Ahead(<< <<One("notnl")>> >>)>>

\* The answer found line by line, when answer_pattern matches nowhere.
RECURSIVE ScanAnswer(_, _, _, _)
ScanAnswer(qa_lines, n, found, answer_lines) ==
    IF n > Len(qa_lines) THEN answer_lines
    ELSE LET line == qa_lines[n]
         IN  IF startswith(strip(line), "A:")
             THEN ScanAnswer(qa_lines, n + 1, TRUE,
                             Append(answer_lines, strip(SliceFrom(strip(line), 2))))
             ELSE IF found /\ strip(line) # "" /\ ~match(question_marker, line, FALSE)
             THEN ScanAnswer(qa_lines, n + 1, found, Append(answer_lines, strip(line)))
             ELSE IF found /\ match(question_marker, line, FALSE)
             THEN answer_lines
             ELSE ScanAnswer(qa_lines, n + 1, found, answer_lines)

HasQuestion(qa) == match(question_head, qa, FALSE)

original_num(qa) == int(SubSeq(qa, 1, RunLength(qa, 1, "digit")))

question_text(qa) ==
    strip(SubSeq(qa, MatchFrom(question_head_to_text, 1, qa, 1),
                 MatchFrom(question_head, 1, qa, 1) - 1))

answer_text(qa) ==
    LET start == SearchFrom(answer_pattern, qa, 1)
    IN  IF start # 0
        THEN strip(SubSeq(qa, MatchFrom(answer_pattern_to_text, 1, qa, start),
                          MatchFrom(answer_pattern, 1, qa, start) - 1))
        ELSE strip(join(" ", ScanAnswer(split(qa), 1, FALSE, <<>>)))

\* The record of one pair, as the extraction loop builds it.
StructuredPair(qa) ==
    [original_num |-> original_num(qa),
     question     |-> question_text(qa),
     answer       |-> answer_text(qa)]

\* The pair is kept: its question matches and its answer is not empty.
IsKept(qa) == HasQuestion(qa) /\ answer_text(qa) # ""

\* An insertion that keeps one pair per original number: the fault of
\* treating original numbers as keys.
InsertUnique(sorted, pair) ==
    IF \E n \in 1..Len(sorted) : sorted[n].original_num = pair.original_num
    THEN sorted
    ELSE LET Greater(n) == sorted[n].original_num > pair.original_num
             at == First(1, Len(sorted), Greater)
         IN  IF at = 0 THEN Append(sorted, pair)
             ELSE SubSeq(sorted, 1, at - 1) \o <<pair>> \o SubSeq(sorted, at, Len(sorted))

\* The pairs left in the order of the input: the fault of a sort left out.
Unsorted(pairs) == pairs

\* list.sort(key=lambda x: x['original_num']): ascending, and stable
Insert(sorted, pair) ==
    LET Greater(n) == sorted[n].original_num > pair.original_num
        at == First(1, Len(sorted), Greater)
    IN  IF at = 0 THEN Append(sorted, pair)
        ELSE SubSeq(sorted, 1, at - 1) \o <<pair>> \o SubSeq(sorted, at, Len(sorted))

RECURSIVE SortFrom(_, _, _)
SortFrom(pairs, n, sorted) ==
    IF n > Len(pairs) THEN sorted
    ELSE SortFrom(pairs, n + 1, Insert(sorted, pairs[n]))

sort(pairs) == SortFrom(pairs, 1, <<>>)

\* for i, pair in enumerate(structured_pairs, 1)
FirstNumber == 1

RECURSIVE OutputLines(_, _)
OutputLines(pairs, n) ==
    IF n > Len(pairs) THEN <<>>
    ELSE <<str(FirstNumber + n - 1) \o ". Q: " \o pairs[n].question,
           "A: " \o pairs[n].answer,
           "">>
         \o OutputLines(pairs, n + 1)

RQ_Split ==
    /\ script = "reorder_questions" /\ pc = "start"
    /\ qa_pairs' = CollectPairs(SplitParts(content, 1), 1, "", <<>>)
    /\ pc' = "extract"
    /\ UNCHANGED <<script, content, lines, i, processed_lines, question_number,
                   found_answer, iter_start, output, summary, structured_pairs>>

RQ_Here == script = "reorder_questions" /\ pc = "extract" /\ i < Len(qa_pairs)

RQ_Step(pairs) ==
    /\ structured_pairs' = pairs
    /\ i' = i + 1
    /\ UNCHANGED <<script, content, pc, lines, processed_lines, question_number,
                   found_answer, iter_start, output, summary, qa_pairs>>

RQ_Keep ==
    /\ RQ_Here
    /\ IsKept(qa_pairs[i + 1])
    /\ RQ_Step(Append(structured_pairs, StructuredPair(qa_pairs[i + 1])))

RQ_Drop ==
    /\ RQ_Here
    /\ ~IsKept(qa_pairs[i + 1])
    /\ RQ_Step(structured_pairs)

RQ_Sort ==
    /\ script = "reorder_questions" /\ pc = "extract" /\ i = Len(qa_pairs)
    /\ structured_pairs' = sort(structured_pairs)
    /\ pc' = "write"
    /\ UNCHANGED <<script, content, lines, i, processed_lines, question_number,
                   found_answer, iter_start, output, summary, qa_pairs>>

RQ_Write ==
    /\ script = "reorder_questions" /\ pc = "write"
    /\ processed_lines' = OutputLines(structured_pairs, 1)
    /\ output' = join("\n", processed_lines')
    /\ summary' = [reordered |-> Len(structured_pairs)]
    /\ pc' = "done"
    /\ UNCHANGED <<script, content, lines, i, question_number, found_answer,
                   iter_start, qa_pairs, structured_pairs>>

reorder_questions ==
    \/ RQ_Split
    \/ RQ_Keep
    \/ RQ_Drop
    \/ RQ_Sort
    \/ RQ_Write

(***************************************************************************)
(* Input files.  A file of the line cleaners is up to MaxChunks chunks     *)
(* joined by line breaks, so that it may end with or without one; a file   *)
(* of the other two scripts is up to that many chunks one after the other. *)
(***************************************************************************)
RECURSIVE Texts(_, _)
Texts(pool, n) ==
    IF n = 0 THEN {""}
    ELSE LET shorter == Texts(pool, n - 1)
         IN  shorter \cup {c \o t : c \in pool, t \in shorter}

RECURSIVE Joined(_, _)
Joined(pool, n) ==
    IF n <= 1 THEN pool
    ELSE LET shorter == Joined(pool, n - 1)
         IN  shorter \cup {c \o "\n" \o t : c \in pool, t \in shorter}

HeaderLine == "2. Networking & Load Balancing"

ThreePairs == "Q: a\nA: b\nQ: a\nA: b\nQ: a\nA: b"

FillerLine == "Do you want me to continue?"

CleanerChunks ==
    {"",
     "Q: a",
     "A: b  c",
     "Q:",
     "5. Q: c",
     "ChatGPT said:",
     "1. Database Operations & Reliability",
     HeaderLine,
     HeaderLine \o "\n" \o ThreePairs,
     FillerLine}

SimpleChunks ==
    {"1. Q: a\n",
     "A: b.. Do you want me to proceed with that?\n",
     "A: c  d. We've now covered it.\n",
     FillerLine \o "\n"}

ReorderChunks ==
    {"5. Q: a\nA: x\n",
     "2. Q: b\nA: y  z\n",
     "2. Q: c\nA:\n",
     "9. Q: d\n\nA: w\nv\n",
     "12. Q:\nA: u\n",
     "Notes\n"}

LineCleaners == {"process_db_qa", "process_db_qa_improved", "clean_db_final"}

Start ==
    /\ pc = "start"
    /\ lines = <<>>
    /\ i = 0
    /\ processed_lines = <<>>
    /\ question_number = 1
    /\ found_answer = FALSE
    /\ iter_start = -1
    /\ output = ""
    /\ summary = NoSummary
    /\ qa_pairs = <<>>
    /\ structured_pairs = <<>>

Init ==
    /\ script \in LineCleaners \cup {"simple_clean"}
    /\ content \in IF script = "simple_clean"
                   THEN Texts(SimpleChunks, MaxChunks)
                   ELSE Joined(CleanerChunks, MaxChunks)
    /\ Start

Next ==
    \/ process_db_qa
    \/ process_db_qa_improved
    \/ clean_db_final
    \/ simple_clean

Spec == Init /\ [][Next]_vars

InitReorder ==
    /\ script = "reorder_questions"
    /\ content \in Texts(ReorderChunks, MaxPairs)
    /\ Start

SpecReorder == InitReorder /\ [][reorder_questions]_vars

(***************************************************************************)
(* What the claims speak of: the lines of the input file and of the file   *)
(* written, once the run is over.                                          *)
(***************************************************************************)
Done == pc = "done"

LookAheadCleaners == {"process_db_qa_improved", "clean_db_final"}

InputLines == split(content)

OutLines == split(output)

IsHeadingLine(l) == startswith(l, "## ")

\* The number a question line carries, and the text after its 'Q: '.
NumberOf(l) == int(SubSeq(l, 1, RunLength(l, 1, "digit")))

TextOf(l) ==
    LET d == RunLength(l, 1, "digit")
    IN  IF LitAt(l, d + 1, ". Q: ") THEN SubSeq(l, d + 6, Len(l)) ELSE ""

\* The question lines of a sequence of lines, in their order.
QuestionLinesOf(out) == SelectSeq(out, IsQuestionEntry)

\* One more than the number of question lines between the last heading
\* before place k (or the start of the output) and place k.
PlaceInScope(out, k) ==
    LET Heading(p) == IsHeadingLine(out[p])
        from == Last(1, k - 1, Heading)
    IN  1 + Cardinality({p \in (from + 1)..(k - 1) : IsQuestionEntry(out[p])})

\* C1: in the output of each line cleaner, the question lines of one topic
\* scope (from the start to the first '## ' heading, or from one heading to
\* the next) carry the numbers 1, 2, ..., K in that order.
C1_NumbersContiguousPerScope ==
    (Done /\ script \in LineCleaners) =>
        LET out == OutLines
        IN  \A k \in 1..Len(out) :
                IsQuestionEntry(out[k]) => NumberOf(out[k]) = PlaceInScope(out, k)

\* The header line followed by the three pairs stands in the input, on
\* lines of its own.
HeaderBlock == HeaderLine \o "\n" \o ThreePairs

HoldsHeaderBlock ==
    \E p \in 1..Len(content) :
        /\ p = 1 \/ Char(content, p - 1) = "\n"
        /\ LitAt(content, p, HeaderBlock)

\* C2: in each line cleaner, when the input holds the header line
\* "2. Networking & Load Balancing" followed by three Q/A pairs, the header
\* is written as a '## ' heading and the three questions after it carry the
\* numbers 1, 2, 3, however many questions were written before it.
C2_HeaderRestartsNumbering ==
    (Done /\ script \in LineCleaners /\ HoldsHeaderBlock) =>
        LET out == OutLines
        IN  \E k \in 1..Len(out) :
                /\ out[k] = "## " \o HeaderLine
                /\ LET after == QuestionLinesOf(SubSeq(out, k + 1, Len(out)))
                   IN  /\ Len(after) >= 3
                       /\ \A n \in 1..3 : NumberOf(after[n]) = n

WellFormedQuestion(l) == NumberOf(l) >= 1 /\ strip(TextOf(l)) # ""

\* C3: every question line written matches '<positive integer>. Q: <text>'
\* with a number of at least 1 and a text that is not empty, also for an
\* input line that is 'Q:' with nothing after it.
C3_QuestionLinesWellFormed ==
    (Done /\ script # "simple_clean") =>
        LET out == OutLines
        IN  \A k \in 1..Len(out) :
                IsQuestionEntry(out[k]) => WellFormedQuestion(out[k])

\* C6: in each line cleaner, every input line that starts with 'A:' and has
\* a text that is not empty after whitespace normalisation is written as an
\* 'A: <text>' line, wherever it stands in the input.
C6_NonEmptyAnswersKept ==
    (Done /\ script \in LineCleaners) =>
        LET out == OutLines
        IN  \A k \in 1..Len(InputLines) :
                LET line == strip(InputLines[k])
                IN  (startswith(line, "A:") /\ NormalizeAnswer(line) # "") =>
                        \E j \in 1..Len(out) : out[j] = "A: " \o NormalizeAnswer(line)

\* A line that is the filler line or a piece of it.
IsFillerFragment(l) ==
    /\ strip(l) # ""
    /\ \E p \in 1..Len(FillerLine) : LitAt(FillerLine, p, strip(l))

\* C7: in each of the four cleaners, an input line that is only the filler
\* phrase "Do you want me to continue?" is never written, neither whole nor
\* as a leftover piece on a line of its own.
C7_FillerLineRemoved ==
    (/\ Done
     /\ script \in LineCleaners \cup {"simple_clean"}
     /\ \E k \in 1..Len(InputLines) : InputLines[k] = FillerLine) =>
        \A j \in 1..Len(OutLines) : ~IsFillerFragment(OutLines[j])

\* C8: after a run of a line cleaner the printed counts equal what was
\* written: Topics the number of '## ' lines of the output, Questions the
\* number of its question lines, Answers the number of its answer lines.
C8_SummaryMatchesOutput ==
    (Done /\ script \in LineCleaners) =>
        /\ summary.topics = Count(OutLines, IsHeadingLine)
        /\ summary.questions = Count(OutLines, IsQuestionEntry)
        /\ summary.answers = Count(OutLines, IsAnswerEntry)

MeetsTopicCriteria(line) ==
    IF script = "clean_db_final" THEN IsTopicFinal(line) ELSE IsTopicImproved(line)

\* C9: in the two look-ahead cleaners every line that meets the script's
\* topic criteria is written as a '## ' heading, and the first question
\* after a heading carries the number 1, also when the line stands directly
\* after a question that has no answer line.
C9_TopicTakesPrecedence ==
    (Done /\ script \in LookAheadCleaners) =>
        LET out == OutLines
            IsTopicLine(l) == MeetsTopicCriteria(strip(l))
            Marked(p) == IsHeadingLine(out[p]) \/ IsQuestionEntry(out[p])
        IN  /\ \A k \in 1..Len(lines) :
                   IsTopicLine(lines[k]) =>
                       \E j \in 1..Len(out) : out[j] = "## " \o strip(lines[k])
            /\ Count(out, IsHeadingLine) = Count(lines, IsTopicLine)
            /\ \A j \in 1..Len(out) :
                   IsHeadingLine(out[j]) =>
                       LET q == First(j + 1, Len(out), Marked)
                       IN  (q # 0 /\ IsQuestionEntry(out[q])) => NumberOf(out[q]) = 1

\* C10: in the two look-ahead cleaners the line index never goes below 0,
\* and every iteration of the outer loop leaves it strictly greater than it
\* was when the iteration began, also after the look-ahead stepped back.
C10_IndexAdvances ==
    script \in LookAheadCleaners =>
        /\ i >= 0
        /\ pc \in {"loop", "done"} => i > iter_start

\* A question of clean_db_final whose look-ahead found no answer: the index
\* was stepped back and the loop resumed at the line after the question.
C10_SteppedBack ==
    /\ script = "clean_db_final"
    /\ pc = "loop"
    /\ iter_start >= 0
    /\ startswith(strip(lines[iter_start + 1]), "Q:")
    /\ ~found_answer
    /\ i = iter_start + 1
    /\ i < Len(lines)

(***************************************************************************)
(* reorder_questions.                                                      *)
(***************************************************************************)
\* The records of the input pairs whose extracted answer is not empty, in
\* the order of the input.
RECURSIVE KeptFrom(_, _)
KeptFrom(pairs, n) ==
    IF n > Len(pairs) THEN <<>>
    ELSE (IF IsKept(pairs[n]) THEN <<StructuredPair(pairs[n])>> ELSE <<>>)
         \o KeptFrom(pairs, n + 1)

Occurrences(seq, r) == Cardinality({n \in 1..Len(seq) : seq[n] = r})

Ascending(pairs) ==
    \A a, b \in 1..Len(pairs) :
        a < b => pairs[a].original_num <= pairs[b].original_num

\* The question lines of the output carry 1, 2, ..., N and the questions of
\* the given pairs, in their order.
WrittenAs(pairs) ==
    LET questions == QuestionLinesOf(OutLines)
    IN  /\ Len(questions) = Len(pairs)
        /\ \A n \in 1..Len(pairs) :
               /\ NumberOf(questions[n]) = n
               /\ TextOf(questions[n]) = pairs[n].question

\* C4: reorder_questions writes exactly the pairs of its input whose
\* extracted answer is not empty, in ascending order of their original
\* number, numbered 1, 2, ..., N, whatever gaps or duplicates the original
\* numbers contain.
C4_ReorderWritesKeptPairs ==
    (Done /\ script = "reorder_questions") =>
        LET kept == KeptFrom(qa_pairs, 1)
        IN  /\ Len(structured_pairs) = Len(kept)
            /\ \A n \in 1..Len(kept) :
                   Occurrences(structured_pairs, kept[n]) = Occurrences(kept, kept[n])
            /\ Ascending(structured_pairs)
            /\ WrittenAs(structured_pairs)

\* A run over pairs with gaps and a duplicate in their numbers, one of them
\* dropped for its empty answer, the others written out of input order.
C4_Reordered ==
    /\ Done /\ script = "reorder_questions"
    /\ Len(qa_pairs) = 4
    /\ Len(structured_pairs) = 3
    /\ structured_pairs[1].original_num = structured_pairs[2].original_num
    /\ structured_pairs[3].original_num > structured_pairs[2].original_num + 1
    /\ StructuredPair(qa_pairs[1]) = structured_pairs[3]

\* The original numbers of the input pairs are 5, 2, 2, 9 in that order.
NumbersFiveTwoTwoNine ==
    /\ Len(qa_pairs) = 4
    /\ \A n \in 1..4 : match(question_marker, qa_pairs[n], FALSE)
    /\ <<original_num(qa_pairs[1]), original_num(qa_pairs[2]),
         original_num(qa_pairs[3]), original_num(qa_pairs[4])>> = <<5, 2, 2, 9>>

\* C5 as stated: given pairs with the original numbers [5, 2, 2, 9],
\* reorder_questions writes exactly 3 pairs, numbered 1, 2, 3, in ascending
\* order of original number.
C5_WritesThreePairs ==
    (Done /\ script = "reorder_questions" /\ NumbersFiveTwoTwoNine) =>
        /\ Len(structured_pairs) = 3
        /\ Ascending(structured_pairs)
        /\ WrittenAs(structured_pairs)

\* C5: given pairs with the original numbers [5, 2, 2, 9], reorder_questions
\* writes one pair for each input pair whose extracted answer is not empty
\* (all 4 when no answer is empty, both pairs numbered 2 among them),
\* numbered 1, 2, ..., N in ascending order of original number.
C5_WritesEveryAnsweredPair ==
    (Done /\ script = "reorder_questions" /\ NumbersFiveTwoTwoNine) =>
        LET kept == KeptFrom(qa_pairs, 1)
        IN  /\ Len(structured_pairs) = Len(kept)
            /\ (\A n \in 1..4 : answer_text(qa_pairs[n]) # "") =>
                   /\ Len(structured_pairs) = 4
                   /\ structured_pairs[1].original_num = 2
                   /\ structured_pairs[2].original_num = 2
            /\ Ascending(structured_pairs)
            /\ WrittenAs(structured_pairs)

\* Pairs numbered 5, 2, 2, 9, none with an empty answer: all four written.
C5_AllFourWritten ==
    /\ Done /\ script = "reorder_questions"
    /\ NumbersFiveTwoTwoNine
    /\ Len(structured_pairs) = 4

====
